---- MODULE Spec2Model ----
(***************************************************************************)
(* LlamaCppEngine (src/api/core/llama_cpp_engine.py): chat-template        *)
(* rendering through a prompt adapter, the non-streaming reshaping of one  *)
(* raw completion into a ChatCompletion, and the generator that reshapes   *)
(* a raw completion stream into ChatCompletionChunk objects.               *)
(*                                                                         *)
(* The engine keeps no mutable state between calls (self.model and         *)
(* self.prompt_adapter are only read), so a behaviour is one engine and    *)
(* one method call on it, followed for the streaming call by the caller's  *)
(* pulls on the returned generator.                                        *)
(*                                                                         *)
(* Text is a sequence of one-character strings, so that str.strip() is     *)
(* computed.  An optional (None-able) value is a set with at most one      *)
(* element.  A Python dict is a record; a dict lacking a key is a record   *)
(* without that field.                                                     *)
(***************************************************************************)
EXTENDS Integers, Sequences, FiniteSets, TLC

VARIABLES
    function_call_available, \* self.prompt_adapter.function_call_available
    pc,                      \* where the call / the generator frame stands
    request,                 \* arguments of apply_chat_template, once called
    pp_calls,                \* argument lists postprocess_messages was called with
    template_arg,            \* message list the adapter's template function got
    rendered,                \* prompt returned by apply_chat_template
    calls,                   \* number of self.model.create_completion invocations
    completion,              \* raw output of the non-streaming create_completion
    result,                  \* ChatCompletion returned by _create_chat_completion
    error,                   \* exception that left the call or the generator
    consumed,                \* raw events the raw iterator has produced so far
    chunks,                  \* chunks the generator has yielded to the caller
    rawState,                \* the raw iterator: none / open / exhausted / closed
    pulls,                   \* next() calls the generator's body has served
    raw_nexts,               \* next() calls made on the raw iterator
    last_next                \* what the last next() on the generator gave the caller

vars == <<function_call_available, pc, request, pp_calls, template_arg, rendered,
          calls, completion, result, error, consumed, chunks, rawState,
          pulls, raw_nexts, last_next>>

templateVars == <<request, pp_calls, template_arg, rendered>>
completionVars == <<completion, result>>
streamVars == <<consumed, chunks, rawState, pulls, raw_nexts, last_next>>

----------------------------------------------------------------------------
(* Bounds of the model *)

\* raw events one raw iterator produces at most
MaxEvents == 3

\* characters of a non-streaming completion text at most
MaxTextLen == 3

\* messages of a chat request at most
MaxMessages == 2

----------------------------------------------------------------------------
(* Python values *)

None == {}
Some(x) == {x}
TheValue(o) == CHOOSE x \in o : TRUE

\* d[key] on a dict raises KeyError when the key is absent
HasKey(d, key) == key \in DOMAIN d

RECURSIVE SeqsUpTo(_, _)
SeqsUpTo(S, n) ==
    IF n = 0 THEN {<<>>}
    ELSE LET shorter == SeqsUpTo(S, n - 1)
         IN  shorter \cup {Append(s, x) : s \in {t \in shorter : Len(t) = n - 1}, x \in S}

----------------------------------------------------------------------------
(* The generation capability's outputs (llama_cpp.Llama.create_completion) *)

Chars == {" ", "\n", "a"}
Whitespace == {" ", "\t", "\n", "\r", "\f"}

Texts == SeqsUpTo(Chars, MaxTextLen)
Fragments == {<<" ", "a", " ">>, <<"a">>}
FinishReasons == {None, Some("stop"), Some("length")}

Metas == {[id |-> "cmpl-1", created |-> 1700, model |-> "llama-a"],
          [id |-> "cmpl-2", created |-> 1701, model |-> "llama-b"]}

Usages == {[prompt_tokens |-> 3, completion_tokens |-> 2, total_tokens |-> 5],
           [prompt_tokens |-> 4, completion_tokens |-> 0, total_tokens |-> 4]}

RawEvent(meta, text, finish_reason) ==
    [id |-> meta.id, created |-> meta.created, model |-> meta.model,
     choices |-> <<[text |-> text, index |-> 0, finish_reason |-> finish_reason]>>]

\* raw events of a stream that carry every field the engine reads
WellFormedEvents ==
    {RawEvent(m, t, f) : m \in Metas, t \in Fragments, f \in FinishReasons}

\* raw events that lack a field
MalformedEvents ==
    {[created |-> 1700, model |-> "llama-a",
      choices |-> <<[text |-> <<"a">>, index |-> 0, finish_reason |-> None]>>],
     [id |-> "cmpl-1", created |-> 1700,
      choices |-> <<[text |-> <<"a">>, index |-> 0, finish_reason |-> None]>>],
     [id |-> "cmpl-1", created |-> 1700, model |-> "llama-a"],
     [id |-> "cmpl-1", created |-> 1700, model |-> "llama-a", choices |-> <<>>],
     [id |-> "cmpl-1", created |-> 1700, model |-> "llama-a",
      choices |-> <<[text |-> <<"a">>, index |-> 0]>>],
     [id |-> "cmpl-1", created |-> 1700, model |-> "llama-a",
      choices |-> <<[index |-> 0, finish_reason |-> None]>>],
     [id |-> "cmpl-1", created |-> 1700, model |-> "llama-a",
      choices |-> <<[index |-> 0, finish_reason |-> Some("stop")]>>]}

RawEvents == WellFormedEvents \cup MalformedEvents

WithUsage(event, usage) ==
    [k \in DOMAIN event \cup {"usage"} |-> IF k = "usage" THEN usage ELSE event[k]]

\* raw results of a non-streaming create_completion
WellFormedCompletions ==
    {WithUsage(RawEvent(m, t, f), u) :
        m \in Metas, t \in Texts, f \in FinishReasons \ {None}, u \in Usages}

MalformedCompletions ==
    {WithUsage(e, u) : e \in MalformedEvents, u \in Usages}
    \cup {RawEvent(m, <<"a">>, Some("stop")) : m \in Metas}

RawCompletions == WellFormedCompletions \cup MalformedCompletions

----------------------------------------------------------------------------
(* The prompt adapter (api.adapter), as a recording double *)

Msgs == {[role |-> "user", content |-> "hi"],
         [role |-> "system", content |-> "be brief"]}
MessageLists == SeqsUpTo(Msgs, MaxMessages)

\* functions / tools arguments: None (the default), an empty list, a non-empty list
ToolArgs == {None, Some(<<>>), Some(<<"get_weather">>)}

\* Python truthiness of an optional list
NonEmpty(arg) == arg # None /\ arg # Some(<<>>)

\* prompt_adapter.postprocess_messages: rewrites the message list; what it
\* writes is the adapter's business, the double inlines one system message
postprocess_messages(messages, functions, tools) ==
    <<[role |-> "system", content |-> "schemas"]>> \o messages

\* prompt_adapter.apply_chat_template: renders a message list to a prompt
RECURSIVE adapter_apply_chat_template(_)
adapter_apply_chat_template(messages) ==
    IF messages = <<>> THEN ""
    ELSE Head(messages).role \o ":" \o Head(messages).content \o "\n"
         \o adapter_apply_chat_template(Tail(messages))

----------------------------------------------------------------------------
(* apply_chat_template, lines 46-65 *)

\* a guard that also requires functions or tools to be given
PostprocessesIfGiven(available, functions, tools) ==
    available /\ (NonEmpty(functions) \/ NonEmpty(tools))

\* line 63: if self.prompt_adapter.function_call_available:
Postprocesses(available, functions, tools) == available

ApplyChatTemplate ==
    /\ pc = "idle"
    /\ \E messages \in MessageLists, functions \in ToolArgs, tools \in ToolArgs :
         LET post == Postprocesses(function_call_available, functions, tools)
             msgs == IF post THEN postprocess_messages(messages, functions, tools)
                     ELSE messages
         IN  /\ request' = Some([messages |-> messages, functions |-> functions,
                                 tools |-> tools])
             /\ pp_calls' = IF post
                            THEN Append(pp_calls, [messages |-> messages,
                                                   functions |-> functions,
                                                   tools |-> tools])
                            ELSE pp_calls
             /\ template_arg' = Some(msgs)
             /\ rendered' = Some(adapter_apply_chat_template(msgs))
    /\ pc' = "rendered"
    /\ UNCHANGED <<function_call_available, calls, error, completionVars, streamVars>>

----------------------------------------------------------------------------
(* Reshaping helpers shared by both paths *)

\* the identifier written without the prefix
BareId(_id) == _id

\* lines 104, 134, 153: "chat" + completion["id"], f"chat{_id}"
ChatId(_id) == "chat" \o _id

\* str.lstrip() and str.rstrip() on whitespace
RECURSIVE lstrip(_)
lstrip(s) == IF s # <<>> /\ Head(s) \in Whitespace THEN lstrip(Tail(s)) ELSE s

RECURSIVE rstrip(_)
rstrip(s) ==
    IF s # <<>> /\ s[Len(s)] \in Whitespace THEN rstrip(SubSeq(s, 1, Len(s) - 1)) ELSE s

\* a strip that forgets the trailing side
StripLeftOnly(s) == lstrip(s)

\* line 94: .strip()
strip(s) == rstrip(lstrip(s))

\* the exception raised by reading id, created, model of a raw dict, if any
\* (lines 104-107, line 125)
MetaError(output) ==
    IF {"id", "created", "model"} \subseteq DOMAIN output THEN None ELSE Some("KeyError")

\* the exception raised by output["choices"][0], if any (lines 94, 141)
FirstChoiceError(output) ==
    IF ~HasKey(output, "choices") THEN Some("KeyError")
    ELSE IF Len(output.choices) = 0 THEN Some("IndexError")
    ELSE None

----------------------------------------------------------------------------
(* _create_chat_completion, lines 80-110 *)

\* api.utils.compat.model_parse(CompletionUsage, completion["usage"])
model_parse(usage) ==
    [prompt_tokens |-> usage.prompt_tokens,
     completion_tokens |-> usage.completion_tokens,
     total_tokens |-> usage.total_tokens]

\* the first exception raised by the dict reads of lines 94, 102, 104-107
CompletionError(c) ==
    IF FirstChoiceError(c) # None THEN FirstChoiceError(c)
    ELSE IF ~HasKey(c.choices[1], "text") THEN Some("KeyError")
    ELSE IF ~HasKey(c, "usage") THEN Some("KeyError")
    ELSE MetaError(c)

\* lines 92-95
ChatCompletionMessage(c) ==
    [role |-> "assistant", content |-> strip(c.choices[1].text)]

\* lines 96-101
Choice(c) ==
    [index |-> 0, message |-> ChatCompletionMessage(c),
     finish_reason |-> Some("stop"), logprobs |-> None]

\* lines 102-110
ChatCompletion(c) ==
    [id |-> ChatId(c.id), choices |-> <<Choice(c)>>, created |-> c.created,
     model |-> c.model, object |-> "chat.completion", usage |-> model_parse(c.usage)]

\* create_chat_completion without stream (lines 160-165) running
\* _create_chat_completion to its return or to the exception that leaves it
CreateChatCompletion ==
    /\ pc = "idle"
    /\ calls' = calls + 1
    /\ \E c \in RawCompletions :
         /\ completion' = Some(c)
         /\ IF CompletionError(c) # None
            THEN /\ error' = CompletionError(c)
                 /\ result' = None
                 /\ pc' = "raised"
            ELSE /\ error' = None
                 /\ result' = Some(ChatCompletion(c))
                 /\ pc' = "returned"
    /\ UNCHANGED <<function_call_available, templateVars, streamVars>>

----------------------------------------------------------------------------
(* _create_chat_completion_stream, lines 112-158 *)

ChoiceDelta(role, content) == [role |-> role, content |-> content]

\* a loop that announces the role on every raw event
IsFirstAlways(i) == TRUE

\* a loop that never announces the role
IsFirstNever(i) == FALSE

\* line 126: if i == 0
IsFirst(i) == i = 0

\* a first chunk that does not announce the role
HeaderChoiceNoRole ==
    [index |-> 0, delta |-> ChoiceDelta(None, Some(<<>>)),
     finish_reason |-> None, logprobs |-> None]

\* lines 127-132
HeaderChoice ==
    [index |-> 0, delta |-> ChoiceDelta(Some("assistant"), Some(<<>>)),
     finish_reason |-> None, logprobs |-> None]

\* a delta that trims the fragment as the non-streaming path trims its text
ChunkDeltaStripped(choice) ==
    IF choice.finish_reason = None THEN ChoiceDelta(None, Some(strip(choice.text)))
    ELSE ChoiceDelta(None, None)

\* lines 141-144
ChunkDelta(choice) ==
    IF choice.finish_reason = None THEN ChoiceDelta(None, Some(choice.text))
    ELSE ChoiceDelta(None, None)

\* lines 146-151
ChunkChoice(output) ==
    [index |-> 0, delta |-> ChunkDelta(output.choices[1]),
     finish_reason |-> output.choices[1].finish_reason, logprobs |-> None]

\* lines 133-139, 152-158
ChatCompletionChunk(output, choice) ==
    [id |-> ChatId(output.id), choices |-> <<choice>>, created |-> output.created,
     model |-> output.model, object |-> "chat.completion.chunk"]

\* an engine that wraps the failure of a dict read in an error type of its own
ChunkErrorWrapped(output) ==
    IF FirstChoiceError(output) # None
       \/ ~HasKey(output.choices[1], "finish_reason")
       \/ (output.choices[1].finish_reason = None /\ ~HasKey(output.choices[1], "text"))
    THEN Some("MalformedUpstreamOutputError")
    ELSE None

\* the first exception raised by the dict reads of lines 141-149
ChunkError(output) ==
    IF FirstChoiceError(output) # None THEN FirstChoiceError(output)
    ELSE IF ~HasKey(output.choices[1], "finish_reason") THEN Some("KeyError")
    ELSE IF output.choices[1].finish_reason = None /\ ~HasKey(output.choices[1], "text")
         THEN Some("KeyError")
    ELSE None

\* create_chat_completion with stream=True (lines 160-165): the generator
\* object is returned, none of its body has run
CreateChatCompletionStream ==
    /\ pc = "idle"
    /\ pc' = "unstarted"
    /\ UNCHANGED <<function_call_available, templateVars, calls, error,
                   completionVars, streamVars>>

\* lines 141-158 for the current output: the second yield, or the exception
Emit(output) ==
    IF ChunkError(output) # None
    THEN /\ error' = ChunkError(output)
         /\ chunks' = chunks
         /\ last_next' = "raise"
         /\ pc' = "failed"
    ELSE /\ error' = error
         /\ chunks' = Append(chunks, ChatCompletionChunk(output, ChunkChoice(output)))
         /\ last_next' = "chunk"
         /\ pc' = "after_chunk"

\* line 124: the raw iterator is exhausted, the generator returns
Exhaust ==
    /\ raw_nexts' = raw_nexts + 1
    /\ rawState' = "exhausted"
    /\ last_next' = "StopIteration"
    /\ pc' = "done"
    /\ UNCHANGED <<consumed, chunks, error>>

\* lines 124-139 and on: the raw iterator gives the next output
Consume ==
    /\ Len(consumed) < MaxEvents
    /\ raw_nexts' = raw_nexts + 1
    /\ rawState' = "open"
    /\ \E output \in RawEvents :
         /\ consumed' = Append(consumed, output)
         /\ IF MetaError(output) # None
            THEN /\ error' = MetaError(output)
                 /\ chunks' = chunks
                 /\ last_next' = "raise"
                 /\ pc' = "failed"
            ELSE IF IsFirst(Len(consumed))
            THEN /\ error' = error
                 /\ chunks' = Append(chunks, ChatCompletionChunk(output, HeaderChoice))
                 /\ last_next' = "chunk"
                 /\ pc' = "after_header"
            ELSE Emit(output)

\* a loop that breaks once it has yielded a chunk with a finish reason
IterateBreaksOnFinish ==
    IF /\ chunks # <<>>
       /\ chunks[Len(chunks)].choices[1].finish_reason # None
    THEN /\ last_next' = "StopIteration"
         /\ pc' = "done"
         /\ UNCHANGED <<raw_nexts, rawState, consumed, chunks, error>>
    ELSE Exhaust \/ Consume

\* line 124: for i, output in enumerate(completion)
Iterate == Exhaust \/ Consume

\* the first next(): line 123 runs, then the loop up to its first yield
PullFirst ==
    /\ pc = "unstarted"
    /\ calls' = calls + 1
    /\ pulls' = pulls + 1
    /\ Iterate
    /\ UNCHANGED <<function_call_available, templateVars, completionVars>>

\* next() on the generator suspended at the yield of line 133
PullAfterHeader ==
    /\ pc = "after_header"
    /\ pulls' = pulls + 1
    /\ Emit(consumed[Len(consumed)])
    /\ UNCHANGED <<function_call_available, templateVars, completionVars, calls,
                   consumed, rawState, raw_nexts>>

\* next() on the generator suspended at the yield of line 152
PullNext ==
    /\ pc = "after_chunk"
    /\ pulls' = pulls + 1
    /\ Iterate
    /\ UNCHANGED <<function_call_available, templateVars, completionVars, calls>>

\* next() on a generator that has returned, raised or been closed gives
\* StopIteration and runs none of the body
PullFinished ==
    /\ pc \in {"done", "failed", "closed"}
    /\ last_next' = "StopIteration"
    /\ UNCHANGED <<function_call_available, pc, templateVars, completionVars, calls,
                   error, consumed, chunks, rawState, pulls, raw_nexts>>

\* the caller closes or drops the generator: GeneratorExit at the suspended
\* yield.  No try/finally or with statement surrounds the loop (lines 123-158)
\* and no close() is called on `completion`, so the raw iterator is closed only
\* where the runtime finalizes it when the frame's reference goes away.
Abandon ==
    /\ pc \in {"unstarted", "after_header", "after_chunk"}
    /\ pc' = "closed"
    /\ rawState' \in (IF rawState = "open" THEN {"open", "closed"} ELSE {rawState})
    /\ UNCHANGED <<function_call_available, templateVars, completionVars, calls,
                   error, consumed, chunks, pulls, raw_nexts, last_next>>

----------------------------------------------------------------------------
(* The specification *)

Init ==
    /\ function_call_available \in BOOLEAN
    /\ pc = "idle"
    /\ request = None
    /\ pp_calls = <<>>
    /\ template_arg = None
    /\ rendered = None
    /\ calls = 0
    /\ completion = None
    /\ result = None
    /\ error = None
    /\ consumed = <<>>
    /\ chunks = <<>>
    /\ rawState = "none"
    /\ pulls = 0
    /\ raw_nexts = 0
    /\ last_next = "none"

Next ==
    \/ ApplyChatTemplate
    \/ CreateChatCompletion
    \/ CreateChatCompletionStream
    \/ PullFirst
    \/ PullAfterHeader
    \/ PullNext
    \/ PullFinished
    \/ Abandon

Spec == Init /\ [][Next]_vars

----------------------------------------------------------------------------
(* Reading the yielded chunks and the raw events *)

ChunkFinish(k) == chunks[k].choices[1].finish_reason
ChunkDeltaAt(k) == chunks[k].choices[1].delta
EventFinish(k) == consumed[k].choices[1].finish_reason

\* t is s without its leading and trailing whitespace
IsTrimOf(t, s) ==
    \E a \in 0..Len(s), b \in 0..Len(s) :
        /\ a + b <= Len(s)
        /\ t = SubSeq(s, a + 1, Len(s) - b)
        /\ \A j \in 1..a : s[j] \in Whitespace
        /\ \A j \in (Len(s) - b + 1)..Len(s) : s[j] \in Whitespace
        /\ t = <<>> \/ (t[1] \notin Whitespace /\ t[Len(t)] \notin Whitespace)

\* raw events consumed whose own chunk has not been delivered
Pending == Len(consumed) - (IF chunks = <<>> THEN 0 ELSE Len(chunks) - 1)

----------------------------------------------------------------------------
(* Claims *)

\* C1: a stream consumed to exhaustion over N raw events has yielded exactly
\* N+1 chunks when N >= 1 and exactly 0 chunks, without error, when N = 0.
C1_ChunkCount ==
    pc = "done" =>
        /\ error = None
        /\ Len(chunks) = IF Len(consumed) = 0 THEN 0 ELSE Len(consumed) + 1

C1_Witness == pc = "done" /\ Len(consumed) = 2 /\ Len(chunks) = 3

\* C2: in every non-empty stream the first chunk is the header (role
\* "assistant", empty content, finish reason null), it precedes the chunk
\* of the first raw event, and no later chunk announces a role.
C2_HeaderFirstOnce ==
    chunks # <<>> =>
        /\ ChunkDeltaAt(1) = ChoiceDelta(Some("assistant"), Some(<<>>))
        /\ ChunkFinish(1) = None
        /\ \A k \in 2..Len(chunks) : ChunkDeltaAt(k).role = None

C2_Witness ==
    /\ pc = "after_chunk"
    /\ Len(chunks) = 3
    /\ ChunkDeltaAt(1).role = Some("assistant")
    /\ ChunkDeltaAt(2) = ChoiceDelta(None, Some(<<" ", "a", " ">>))

\* C4: the non-streaming result has exactly one choice, index 0, role
\* "assistant", content the raw text without leading and trailing whitespace,
\* finish reason "stop" whatever the raw finish reason, and the raw usage counters.
C4_Completion ==
    pc = "returned" =>
        LET r == TheValue(result)
            c == TheValue(completion)
        IN  /\ Len(r.choices) = 1
            /\ r.choices[1].index = 0
            /\ r.choices[1].message.role = "assistant"
            /\ IsTrimOf(r.choices[1].message.content, c.choices[1].text)
            /\ r.choices[1].finish_reason = Some("stop")
            /\ r.usage.prompt_tokens = c.usage.prompt_tokens
            /\ r.usage.completion_tokens = c.usage.completion_tokens
            /\ r.usage.total_tokens = c.usage.total_tokens

C4_Witness ==
    /\ pc = "returned"
    /\ TheValue(completion).choices[1].text = <<" ", "a", "\n">>
    /\ HasKey(TheValue(completion).choices[1], "finish_reason")
    /\ TheValue(completion).choices[1].finish_reason = Some("length")
    /\ TheValue(result).choices[1].message.content = <<"a">>

\* C7: every chunk, the header included, has identifier "chat" followed by
\* the identifier of the raw event it was derived from, and that event's
\* creation timestamp and model name (the header takes them from the first
\* raw event); the non-streaming identifier is "chat" followed by the raw one.
C7_Identity ==
    /\ \A k \in 1..Len(chunks) :
         LET e == consumed[IF k = 1 THEN 1 ELSE k - 1]
         IN  /\ chunks[k].id = "chat" \o e.id
             /\ chunks[k].created = e.created
             /\ chunks[k].model = e.model
    /\ pc = "returned" =>
         TheValue(result).id = "chat" \o TheValue(completion).id

C7_Witness ==
    /\ Len(chunks) = 3
    /\ consumed[1].id # consumed[2].id
    /\ chunks[1].id = "chatcmpl-1"
    /\ chunks[3].id = "chatcmpl-2"

----------------------------------------------------------------------------
(* Claims the code does not bear out as stated *)

\* the chunk after the header that raw event k gave rise to
Corresponds(k) ==
    /\ ChunkFinish(k + 1) = EventFinish(k)
    /\ ChunkDeltaAt(k + 1) =
         IF EventFinish(k) = None
         THEN ChoiceDelta(None, Some(consumed[k].choices[1].text))
         ELSE ChoiceDelta(None, None)

C5_Claim ==
    pc = "rendered" =>
        LET rq == TheValue(request)
            given == NonEmpty(rq.functions) \/ NonEmpty(rq.tools)
        IN  /\ pp_calls # <<>> <=> (function_call_available /\ given)
            /\ ~(function_call_available /\ given) =>
                   template_arg = Some(rq.messages)

\* C5 as amended: postprocess_messages runs, once and with the call's own
\* arguments, if and only if the adapter declares function-calling support,
\* whether or not functions or tools are given; the template function
\* receives its return value then, and the original message list otherwise.
C5_Postprocess ==
    pc = "rendered" =>
        LET rq == TheValue(request)
        IN  /\ pp_calls = (IF function_call_available THEN <<rq>> ELSE <<>>)
            /\ template_arg =
                 Some(IF function_call_available
                      THEN postprocess_messages(rq.messages, rq.functions, rq.tools)
                      ELSE rq.messages)
            /\ rendered = Some(adapter_apply_chat_template(TheValue(template_arg)))

C5_Witness ==
    /\ pc = "rendered"
    /\ function_call_available
    /\ TheValue(request).functions = None
    /\ TheValue(request).tools = None
    /\ Len(pp_calls) = 1
    /\ template_arg # Some(TheValue(request).messages)

OnlyLastFinishes ==
    /\ consumed # <<>>
    /\ \A k \in 1..Len(consumed) : EventFinish(k) # None <=> k = Len(consumed)

C8_Claim ==
    /\ raw_nexts = pulls
    /\ Pending <= 1

\* C8 as amended: every pull advances the raw iterator by exactly one step
\* except the second, which delivers the first raw event's own chunk after
\* the header and advances it by zero; no pull advances it by more than
\* one step, and never more than one consumed raw event has chunks still
\* undelivered.
C8_OnDemand ==
    /\ [](raw_nexts = IF pulls <= 1 THEN pulls ELSE pulls - 1)
    /\ [](Pending <= 1)
    /\ [](pc = "after_chunk" => Pending = 0)
    /\ [][pulls' = pulls + 1 => raw_nexts' \in {raw_nexts, raw_nexts + 1}]_vars

C8_Witness ==
    /\ pc = "after_chunk"
    /\ pulls = 3
    /\ raw_nexts = 2
    /\ Len(chunks) = 3

C10_Claim ==
    /\ error # None => error = Some("MalformedUpstreamOutputError")
    /\ calls <= 1

\* the raw dict the failing read was made on
Culprit == IF pc = "raised" THEN TheValue(completion) ELSE consumed[Len(consumed)]

\* once failed, a call or a stream yields, invokes and raises nothing more
StaysFailed ==
    pc \in {"raised", "failed"} =>
        (pc' = pc /\ chunks' = chunks /\ calls' = calls /\ error' = error)

\* C10 as amended: a raw event lacking a field the path reads makes it fail
\* with the KeyError of the dict read (IndexError for an empty choices
\* list), propagated unchanged; nothing is returned, the generation
\* capability is not invoked again, and the stream yields nothing after
\* the error.  A first raw event that has id, created and model but no
\* choices gets its header chunk yielded before the error.
C10_Malformed ==
    /\ [](error # None <=> pc \in {"raised", "failed"})
    /\ [](error # None =>
            /\ error = (IF HasKey(Culprit, "choices") /\ Culprit.choices = <<>>
                            /\ (pc = "raised" \/ MetaError(Culprit) = None)
                        THEN Some("IndexError") ELSE Some("KeyError"))
            /\ Culprit \in MalformedEvents \cup MalformedCompletions
            /\ result = None)
    /\ [](pc = "raised" <=>
            (completion # None /\ CompletionError(TheValue(completion)) # None))
    /\ []((pc \in {"after_chunk", "done"} /\ consumed # <<>>) =>
            \A k \in 1..Len(consumed) : HasKey(consumed[k], "choices"))
    /\ [](calls <= 1)
    /\ [][StaysFailed]_vars

C10_Witness ==
    /\ pc = "failed"
    /\ error = Some("KeyError")
    /\ Len(consumed) = 1
    /\ ~HasKey(consumed[1], "choices")
    /\ Len(chunks) = 1
    /\ last_next = "StopIteration"

====
